---- MODULE Spec2Model ----
(***************************************************************************)
(* tomte: content fingerprint (SHA-1 over the re-encoded pixel payload)    *)
(* and EXIF creation date of image files, computed per file and, for a     *)
(* directory, across a multiprocessing.Pool whose results are printed by   *)
(* the apply_async callback.                                               *)
(***************************************************************************)
EXTENDS Integers, Sequences, FiniteSets, TLC

(* ------------------------------------------------------------------ *)
(* Bounds of the model                                                 *)
(* ------------------------------------------------------------------ *)
\* longest pixel payload of a modelled image, in bytes
MaxPayload == 2
\* largest explicit block_size tried (block sizes range over -1..MaxBlock)
MaxBlock == 3
\* block length of the modelled digest's compression function
HashBlockLen == 2
\* modulus of the modelled digest's chaining value
HashMod == 251
\* most files a modelled directory holds
MaxFiles == 3
\* most worker processes of the modelled pool (os.cpu_count())
MaxProcs == 2

\* default of the block_size parameter of _calc_checksum
DefaultBlockSize == 8192

(* ------------------------------------------------------------------ *)
(* Python outcomes: a call returns a value or raises an exception      *)
(* ------------------------------------------------------------------ *)
Ret(v) == [exc |-> "none", val |-> <<v>>]
Raise(e) == [exc |-> e, val |-> <<>>]
Returned(o) == o.exc = "none"
ValueOf(o) == o.val[1]

(* ------------------------------------------------------------------ *)
(* Files                                                               *)
(* ------------------------------------------------------------------ *)
Bytes == {0, 1}

RECURSIVE SeqsUpTo(_, _)
SeqsUpTo(S, n) ==
    IF n = 0 THEN {<<>>}
    ELSE LET shorter == SeqsUpTo(S, n - 1)
         IN shorter \cup {Append(s, b) : s \in {t \in shorter : Len(t) = n - 1}, b \in S}

Payloads == SeqsUpTo(Bytes, MaxPayload)

\* the value stored under EXIF tag 306, as strptime sees it: a string split
\* at the separators of '%Y:%m:%d %H:%M:%S' (sep: the separators are the
\* expected ones and every field is made of digits), or no string at all
NoTag == [kind |-> "absent", sep |-> FALSE, y |-> 0, mo |-> 0, d |-> 0, h |-> 0, mi |-> 0, s |-> 0]
IntTag == [kind |-> "int", sep |-> FALSE, y |-> 0, mo |-> 0, d |-> 0, h |-> 0, mi |-> 0, s |-> 0]
StrTags ==
    [kind : {"str"}, sep : BOOLEAN, y : {1900, 2020}, mo : {1, 2, 13}, d : {1, 30},
     h : {0}, mi : {0}, s : {0, 60}]
Tags == {NoTag, IntTag} \cup StrTags

GoodTag == [kind |-> "str", sep |-> TRUE, y |-> 2020, mo |-> 1, d |-> 1, h |-> 0, mi |-> 0, s |-> 0]
BadTag == [kind |-> "str", sep |-> FALSE, y |-> 2020, mo |-> 1, d |-> 1, h |-> 0, mi |-> 0, s |-> 0]

\* kind: "image" decodes; "zero" is a zero-byte file and "garbage" a file no
\* codec identifies; "truncated" has a valid header and a cut pixel stream
FileKinds == {"image", "zero", "garbage", "truncated"}
Formats == {"JPEG", "PNG"}
Decodable(f) == f.kind = "image"

(* ------------------------------------------------------------------ *)
(* The image codec (PIL.Image) as _calc_checksum and _extract_date use  *)
(* it                                                                  *)
(* ------------------------------------------------------------------ *)
FormatCode(fmt) == IF fmt = "JPEG" THEN 0 ELSE 1

\* PIL.Image.open: identifies the file from its header and reads the header's
\* metadata; the pixel stream is decoded lazily
ImageOpen_ZeroAsEmpty(f) ==
    IF f.kind = "garbage" THEN Raise("UnidentifiedImageError")
    ELSE Ret([format |-> f.format,
              pixels |-> IF f.kind = "zero" THEN <<>> ELSE f.pixels,
              exif |-> f.tag, truncated |-> FALSE])

ImageOpen(f) ==
    IF f.kind \in {"zero", "garbage"} THEN Raise("UnidentifiedImageError")
    ELSE Ret([format |-> f.format, pixels |-> f.pixels, exif |-> f.tag,
              truncated |-> (f.kind = "truncated")])

\* the bytes the metadata block takes in a file
MetaBytes(tag) ==
    IF tag.kind = "absent" THEN <<>>
    ELSE IF tag.kind = "int" THEN <<1>>
    ELSE <<tag.y % 2, tag.mo % 2, tag.d % 2, tag.h % 2, tag.s % 2>>

\* im.save(img_io, im.format) with the EXIF block of the source passed on
ImageSave_KeepExif(im) ==
    IF im.truncated THEN Raise("OSError")
    ELSE Ret(<<FormatCode(im.format)>> \o MetaBytes(im.exif) \o im.pixels)

\* im.save(img_io, im.format): loads the pixel stream (which fails on a cut
\* stream) and encodes it in the given format; no exif argument is given, so
\* no metadata block is written
ImageSave(im) ==
    IF im.truncated THEN Raise("OSError")
    ELSE Ret(<<FormatCode(im.format)>> \o im.pixels)

(* ------------------------------------------------------------------ *)
(* hashlib.sha1: an iterated compression function over fixed blocks,   *)
(* with the pending bytes buffered between updates and the length      *)
(* mixed in at the end                                                 *)
(* ------------------------------------------------------------------ *)
RECURSIVE Compress(_, _)
Compress(h, block) ==
    IF block = <<>> THEN h
    ELSE Compress((h * 3 + Head(block) + 1) % HashMod, Tail(block))

HashNew == [h |-> 7 % HashMod, buf |-> <<>>, n |-> 0]

HashByte(st, b) ==
    LET buf == Append(st.buf, b)
    IN IF Len(buf) = HashBlockLen
       THEN [h |-> Compress(st.h, buf), buf |-> <<>>, n |-> st.n + 1]
       ELSE [h |-> st.h, buf |-> buf, n |-> st.n + 1]

RECURSIVE HashUpdate(_, _)
HashUpdate(st, chunk) ==
    IF chunk = <<>> THEN st
    ELSE HashUpdate(HashByte(st, Head(chunk)), Tail(chunk))

HexDigest(st) == (Compress(st.h, Append(st.buf, 1)) * 5 + st.n) % HashMod

\* the digest of a whole buffer fed in one update
Sha1(data) == HexDigest(HashUpdate(HashNew, data))

(* ------------------------------------------------------------------ *)
(* io.BytesIO                                                          *)
(* ------------------------------------------------------------------ *)
\* img_io after im.save wrote data: the cursor is at the end
Written(data) == [data |-> data, pos |-> Len(data)]
Seek0(io) == [io EXCEPT !.pos = 0]

Min(a, b) == IF a < b THEN a ELSE b

\* img_io.read(size): a negative size reads to the end, size 0 reads nothing
Read(io, size) ==
    IF size < 0 THEN SubSeq(io.data, io.pos + 1, Len(io.data))
    ELSE SubSeq(io.data, io.pos + 1, Min(io.pos + size, Len(io.data)))

Advance(io, k) == [io EXCEPT !.pos = io.pos + k]

(* ------------------------------------------------------------------ *)
(* _calc_checksum                                                      *)
(* ------------------------------------------------------------------ *)
\* the loop as an if: a single chunk is fed
ReadLoop_Once(hasher, io, block_size) ==
    HashUpdate(hasher, Read(io, block_size))

\* while chunk := img_io.read(block_size): hasher.update(chunk)
RECURSIVE ReadLoop(_, _, _)
ReadLoop(hasher, io, block_size) ==
    LET chunk == Read(io, block_size)
    IN IF chunk = <<>> THEN hasher
       ELSE ReadLoop(HashUpdate(hasher, chunk), Advance(io, Len(chunk)), block_size)

CalcChecksum(f, block_size) ==
    LET opened == ImageOpen(f)
    IN IF ~Returned(opened) THEN opened
       ELSE LET saved == ImageSave(ValueOf(opened))
            IN IF ~Returned(saved) THEN saved
               ELSE Ret(HexDigest(ReadLoop(HashNew, Seek0(Written(ValueOf(saved))), block_size)))

(* ------------------------------------------------------------------ *)
(* _extract_date                                                       *)
(* ------------------------------------------------------------------ *)
DateTime(y, mo, d, h, mi, s) ==
    [year |-> y, month |-> mo, day |-> d, hour |-> h, minute |-> mi, second |-> s]

ERROR_DATE == DateTime(1900, 1, 1, 0, 0, 0)

IsLeap(y) == (y % 4 = 0 /\ y % 100 # 0) \/ y % 400 = 0
DaysInMonth(y, mo) ==
    IF mo = 2 THEN (IF IsLeap(y) THEN 29 ELSE 28)
    ELSE IF mo \in {4, 6, 9, 11} THEN 30 ELSE 31

\* the directives of '%Y:%m:%d %H:%M:%S' match the string
MatchesFormat(tag) ==
    /\ tag.sep
    /\ tag.y \in 0..9999
    /\ tag.mo \in 1..12
    /\ tag.d \in 1..31
    /\ tag.h \in 0..23
    /\ tag.mi \in 0..59
    /\ tag.s \in 0..61

\* datetime.datetime.strptime(value, '%Y:%m:%d %H:%M:%S')
Strptime(tag) ==
    IF tag.kind # "str" THEN Raise("TypeError")
    ELSE IF ~MatchesFormat(tag) THEN Raise("ValueError")
    ELSE IF tag.y < 1 \/ tag.d > DaysInMonth(tag.y, tag.mo) \/ tag.s > 59
         THEN Raise("ValueError")
    ELSE Ret(DateTime(tag.y, tag.mo, tag.d, tag.h, tag.mi, tag.s))

\* the except clause names another sentinel
ExtractDate_Epoch(f) ==
    LET opened == ImageOpen(f)
    IN IF ~Returned(opened) THEN opened
       ELSE LET exif == ValueOf(opened).exif
            IN IF exif.kind = "absent" THEN Ret(DateTime(1970, 1, 1, 0, 0, 0))
               ELSE Strptime(exif)

\* exif[306] raises KeyError when the tag is absent, and only KeyError is
\* caught; whatever strptime raises leaves the function
ExtractDate(f) ==
    LET opened == ImageOpen(f)
    IN IF ~Returned(opened) THEN opened
       ELSE LET exif == ValueOf(opened).exif
            IN IF exif.kind = "absent" THEN Ret(ERROR_DATE)
               ELSE Strptime(exif)

(* ------------------------------------------------------------------ *)
(* process_file                                                        *)
(* ------------------------------------------------------------------ *)
\* f"{file_path.name} -- {cdate} -- {hash_str}"
FormatLine(name, cdate, hash_str) == [name |-> name, cdate |-> cdate, hash |-> hash_str]

\* the date is extracted before the checksum is computed
ProcessFileRun_DateFirst(f) ==
    LET cdate == ExtractDate(f)
    IN IF ~Returned(cdate) THEN [calls |-> <<"_extract_date">>, outcome |-> cdate]
       ELSE LET hash_str == CalcChecksum(f, DefaultBlockSize)
            IN [calls |-> <<"_extract_date", "_calc_checksum">>,
                outcome |-> IF ~Returned(hash_str) THEN hash_str
                            ELSE Ret(FormatLine(f.name, ValueOf(cdate), ValueOf(hash_str)))]

\* one run of process_file: the calls it makes, in order, and its outcome; an
\* exception of a call leaves process_file at once
ProcessFileRun(f) ==
    LET hash_str == CalcChecksum(f, DefaultBlockSize)
    IN IF ~Returned(hash_str) THEN [calls |-> <<"_calc_checksum">>, outcome |-> hash_str]
       ELSE LET cdate == ExtractDate(f)
            IN [calls |-> <<"_calc_checksum", "_extract_date">>,
                outcome |-> IF ~Returned(cdate) THEN cdate
                            ELSE Ret(FormatLine(f.name, ValueOf(cdate), ValueOf(hash_str)))]

ProcessFile(f) == ProcessFileRun(f).outcome

(* ------------------------------------------------------------------ *)
(* State                                                               *)
(* ------------------------------------------------------------------ *)
VARIABLES
    srcKind,   \* what src names: "missing", "dir", "file" or "other"
    files,     \* file_list of a directory (or the one file src names)
    nprocs,    \* os.cpu_count(): the number of processes Pool() starts
    pc,        \* where cli is: "start", "pool", "submit", "close", "join",
               \* "done" (cli returned) or "raised" (an exception left cli)
    raised,    \* the exception that left cli, "none" if none did
    submitted, \* how many files of file_list the loop has submitted
    pool,      \* the pool's state: "none", "RUN", "CLOSE" or "JOINED"
    inq,       \* the pool's task queue: the jobs no worker has taken yet
    worker,    \* what each worker process runs: a job, or 0 when it waits
    outq,      \* the pool's result queue: <<job, outcome>> in arrival order
    cache,     \* Pool._cache: the jobs whose result was not yet handled
    stdout,    \* the lines written so far
    unit,      \* each unit of work's state
    taken,     \* how many times each job was taken from the task queue
    fn         \* a direct call of the functions: arguments and outcomes

vars == <<srcKind, files, nprocs, pc, raised, submitted, pool, inq, worker,
          outq, cache, stdout, unit, taken, fn>>

batchVars == <<srcKind, files, nprocs, pc, raised, submitted, pool, inq, worker,
               outq, cache, stdout, unit, taken>>

(* ------------------------------------------------------------------ *)
(* Inputs                                                              *)
(* ------------------------------------------------------------------ *)
File(kind, format, pixels, tag, mtime, name) ==
    [kind |-> kind, format |-> format, pixels |-> pixels, tag |-> tag,
     mtime |-> mtime, name |-> name]

\* the files a modelled directory is made of: the same picture with a date,
\* without one and with an unparsable one, and a zero-byte file
DirFiles ==
    { File("image", "JPEG", <<0, 1>>, GoodTag, 1, 0),
      File("image", "JPEG", <<0, 1>>, NoTag, 2, 0),
      File("image", "JPEG", <<0, 1>>, BadTag, 1, 0),
      File("zero", "JPEG", <<>>, NoTag, 1, 0) }

\* a directory listing: the i-th path has the name i
Listings ==
    UNION { { [i \in 1..n |-> [c[i] EXCEPT !.name = i]] : c \in [1..n -> DirFiles] }
            : n \in 0..MaxFiles }

\* the files the functions are called on directly
FnFiles ==
    { File(k, fmt, px, tag, 1, 1) :
        k \in FileKinds, fmt \in Formats, px \in Payloads, tag \in Tags }

BlockSizes == (0 - 1)..MaxBlock

CountLine(n) == [kind |-> "COUNT", val |-> <<n>>]
ResultLine(line) == [kind |-> "RESULT", val |-> <<line>>]

FnIdle ==
    [file |-> <<>>, block |-> 0, sum |-> <<>>, date |-> <<>>, line |-> <<>>, calls |-> <<>>]

(* ------------------------------------------------------------------ *)
(* cli                                                                 *)
(* ------------------------------------------------------------------ *)
Init ==
    /\ srcKind \in {"missing", "dir", "file", "other"}
    /\ files \in Listings
    /\ srcKind = "file" => Len(files) = 1
    /\ srcKind \in {"missing", "other"} => Len(files) = 0
    /\ nprocs \in 1..MaxProcs
    /\ pc = "start"
    /\ raised = "none"
    /\ submitted = 0
    /\ pool = "none"
    /\ inq = <<>>
    /\ worker = <<>>
    /\ outq = <<>>
    /\ cache = {}
    /\ stdout = <<>>
    /\ unit = [j \in 1..Len(files) |-> "Unsubmitted"]
    /\ taken = [j \in 1..Len(files) |-> 0]
    /\ fn = FnIdle

\* src does not exist, or is neither a directory nor a regular file
BadParameter ==
    /\ pc = "start"
    /\ srcKind \in {"missing", "other"}
    /\ pc' = "raised"
    /\ raised' = "BadParameter"
    /\ UNCHANGED <<srcKind, files, nprocs, submitted, pool, inq, worker, outq,
                   cache, stdout, unit, taken, fn>>

\* the count is not echoed before the pool is made
Discover_NoCount ==
    /\ pc = "start"
    /\ srcKind = "dir"
    /\ pc' = "pool"
    /\ UNCHANGED <<srcKind, files, nprocs, raised, submitted, pool, inq, worker,
                   outq, cache, stdout, unit, taken, fn>>

\* the glob is run without the exists() and is_dir() tests: a path that is no
\* directory lists no file
Discover_Unchecked ==
    /\ pc = "start"
    /\ srcKind # "file"
    /\ stdout' = Append(stdout, CountLine(Len(files)))
    /\ pc' = "pool"
    /\ UNCHANGED <<srcKind, files, nprocs, raised, submitted, pool, inq, worker,
                   outq, cache, unit, taken, fn>>

\* src is a directory: glob the *.jpg files and echo their count
Discover ==
    /\ pc = "start"
    /\ srcKind = "dir"
    /\ stdout' = Append(stdout, CountLine(Len(files)))
    /\ pc' = "pool"
    /\ UNCHANGED <<srcKind, files, nprocs, raised, submitted, pool, inq, worker,
                   outq, cache, unit, taken, fn>>

\* a pool with a process for every file: Pool(max(cpu_count, len(file_list)))
CreatePool_PerFile ==
    /\ pc = "pool"
    /\ pool' = "RUN"
    /\ worker' = [w \in 1..(IF Len(files) > nprocs THEN Len(files) ELSE nprocs) |-> 0]
    /\ pc' = "submit"
    /\ UNCHANGED <<srcKind, files, nprocs, raised, submitted, inq, outq, cache,
                   stdout, unit, taken, fn>>

\* pool = multiprocessing.Pool()
CreatePool ==
    /\ pc = "pool"
    /\ pool' = "RUN"
    /\ worker' = [w \in 1..nprocs |-> 0]
    /\ pc' = "submit"
    /\ UNCHANGED <<srcKind, files, nprocs, raised, submitted, inq, outq, cache,
                   stdout, unit, taken, fn>>

\* one turn of the loop: pool.apply_async(process_file, args=(file, ), callback=...)
Submit ==
    /\ pc = "submit"
    /\ submitted < Len(files)
    /\ LET job == submitted + 1
       IN /\ inq' = Append(inq, job)
          /\ cache' = cache \cup {job}
          /\ unit' = [unit EXCEPT ![job] = "Queued"]
          /\ submitted' = job
    /\ UNCHANGED <<srcKind, files, nprocs, pc, raised, pool, worker, outq,
                   stdout, taken, fn>>

\* the loop is over
LoopEnd ==
    /\ pc = "submit"
    /\ submitted = Len(files)
    /\ pc' = "close"
    /\ UNCHANGED <<srcKind, files, nprocs, raised, submitted, pool, inq, worker,
                   outq, cache, stdout, unit, taken, fn>>

\* pool.close()
Close ==
    /\ pc = "close"
    /\ pool' = "CLOSE"
    /\ pc' = "join"
    /\ UNCHANGED <<srcKind, files, nprocs, raised, submitted, inq, worker, outq,
                   cache, stdout, unit, taken, fn>>

\* a join that does not wait for the pending results
JoinReturns_NoWait ==
    /\ pc = "join"
    /\ pool = "CLOSE"
    /\ pool' = "JOINED"
    /\ pc' = "done"
    /\ UNCHANGED <<srcKind, files, nprocs, raised, submitted, inq, worker, outq,
                   cache, stdout, unit, taken, fn>>

\* pool.join() returns: the pool is closed and its handler threads have ended,
\* which they do once no job is left in the cache
JoinReturns ==
    /\ pc = "join"
    /\ pool = "CLOSE"
    /\ cache = {}
    /\ pool' = "JOINED"
    /\ pc' = "done"
    /\ UNCHANGED <<srcKind, files, nprocs, raised, submitted, inq, worker, outq,
                   cache, stdout, unit, taken, fn>>

\* the single file's failure is caught and cli returns normally
SingleFile_Swallow ==
    /\ pc = "start"
    /\ srcKind = "file"
    /\ LET res == ProcessFile(files[1])
       IN /\ stdout' = IF Returned(res) THEN Append(stdout, ResultLine(ValueOf(res)))
                       ELSE stdout
          /\ unit' = [unit EXCEPT ![1] = IF Returned(res) THEN "Completed" ELSE "Failed"]
    /\ pc' = "done"
    /\ UNCHANGED <<srcKind, files, nprocs, raised, submitted, pool, inq, worker, outq,
                   cache, taken, fn>>

\* src is a regular file: print(process_file(file_path)) in the caller
SingleFile ==
    /\ pc = "start"
    /\ srcKind = "file"
    /\ LET res == ProcessFile(files[1])
       IN IF Returned(res)
          THEN /\ stdout' = Append(stdout, ResultLine(ValueOf(res)))
               /\ unit' = [unit EXCEPT ![1] = "Completed"]
               /\ pc' = "done"
               /\ raised' = raised
          ELSE /\ stdout' = stdout
               /\ unit' = [unit EXCEPT ![1] = "Failed"]
               /\ pc' = "raised"
               /\ raised' = res.exc
    /\ UNCHANGED <<srcKind, files, nprocs, submitted, pool, inq, worker, outq,
                   cache, taken, fn>>

(* ------------------------------------------------------------------ *)
(* The pool's processes and its result handler                         *)
(* ------------------------------------------------------------------ *)
\* a get that leaves the task in the queue
WorkerGet_Peek(w) ==
    /\ pool \in {"RUN", "CLOSE"}
    /\ worker[w] = 0
    /\ inq # <<>>
    /\ taken[Head(inq)] < MaxFiles
    /\ worker' = [worker EXCEPT ![w] = Head(inq)]
    /\ unit' = [unit EXCEPT ![Head(inq)] = "Running"]
    /\ taken' = [taken EXCEPT ![Head(inq)] = @ + 1]
    /\ UNCHANGED <<srcKind, files, nprocs, pc, raised, submitted, pool, inq, outq,
                   cache, stdout, fn>>

\* a waiting worker takes the next task from the queue
WorkerGet(w) ==
    /\ pool \in {"RUN", "CLOSE"}
    /\ worker[w] = 0
    /\ inq # <<>>
    /\ worker' = [worker EXCEPT ![w] = Head(inq)]
    /\ inq' = Tail(inq)
    /\ unit' = [unit EXCEPT ![Head(inq)] = "Running"]
    /\ taken' = [taken EXCEPT ![Head(inq)] = @ + 1]
    /\ UNCHANGED <<srcKind, files, nprocs, pc, raised, submitted, pool, outq,
                   cache, stdout, fn>>

\* the files a listing can hold, and what process_file does on each of them:
\* process_file depends on its argument alone, so its outcomes are tabulated
ListedFiles == {[f EXCEPT !.name = i] : f \in DirFiles, i \in 1..MaxFiles}
TaskOutcome == [f \in ListedFiles |-> ProcessFile(f)]

\* a failing task takes the pool down: the queued tasks are dropped
WorkerRun_Abort(w) ==
    /\ pool \in {"RUN", "CLOSE"}
    /\ worker[w] # 0
    /\ LET job == worker[w]
           res == ProcessFile(files[job])
       IN /\ unit' = [unit EXCEPT ![job] = IF Returned(res) THEN "Completed" ELSE "Failed"]
          /\ outq' = Append(outq, <<job, res>>)
          /\ inq' = IF Returned(res) THEN inq ELSE <<>>
          /\ cache' = IF Returned(res) THEN cache
                      ELSE {j \in cache : \A k \in 1..Len(inq) : inq[k] # j}
    /\ worker' = [worker EXCEPT ![w] = 0]
    /\ UNCHANGED <<srcKind, files, nprocs, pc, raised, submitted, pool, stdout,
                   taken, fn>>

\* a failed task is put back on the task queue once
WorkerRun_Retry(w) ==
    /\ pool \in {"RUN", "CLOSE"}
    /\ worker[w] # 0
    /\ LET job == worker[w]
           res == ProcessFile(files[job])
           retry == ~Returned(res) /\ taken[job] < 2
       IN /\ unit' = [unit EXCEPT ![job] = IF Returned(res) THEN "Completed"
                                           ELSE IF retry THEN "Queued" ELSE "Failed"]
          /\ outq' = IF retry THEN outq ELSE Append(outq, <<job, res>>)
          /\ inq' = IF retry THEN Append(inq, job) ELSE inq
    /\ worker' = [worker EXCEPT ![w] = 0]
    /\ UNCHANGED <<srcKind, files, nprocs, pc, raised, submitted, pool, cache,
                   stdout, taken, fn>>

\* the worker process prints the result line itself
WorkerRun_Print(w) ==
    /\ pool \in {"RUN", "CLOSE"}
    /\ worker[w] # 0
    /\ LET job == worker[w]
           res == ProcessFile(files[job])
       IN /\ unit' = [unit EXCEPT ![job] = IF Returned(res) THEN "Completed" ELSE "Failed"]
          /\ outq' = Append(outq, <<job, Raise("printed")>>)
          /\ stdout' = IF Returned(res) THEN Append(stdout, ResultLine(ValueOf(res)))
                       ELSE stdout
    /\ worker' = [worker EXCEPT ![w] = 0]
    /\ UNCHANGED <<srcKind, files, nprocs, pc, raised, submitted, pool, inq, cache,
                   taken, fn>>

\* the worker runs process_file on its task; the pool's worker loop catches
\* whatever it raises and puts the outcome, value or exception, on the result
\* queue, then waits for the next task
WorkerRun(w) ==
    /\ pool \in {"RUN", "CLOSE"}
    /\ worker[w] # 0
    /\ LET job == worker[w]
           res == TaskOutcome[files[job]]
       IN /\ unit' = [unit EXCEPT ![job] = IF Returned(res) THEN "Completed" ELSE "Failed"]
          /\ outq' = Append(outq, <<job, res>>)
    /\ worker' = [worker EXCEPT ![w] = 0]
    /\ UNCHANGED <<srcKind, files, nprocs, pc, raised, submitted, pool, inq, cache,
                   stdout, taken, fn>>

\* the results are handed out in submission order: only the outcome of the
\* earliest job still pending is handled, once it has arrived
HandleResult_InOrder ==
    /\ pool \in {"RUN", "CLOSE"}
    /\ \E k \in 1..Len(outq) :
          /\ \A j \in cache : outq[k][1] <= j
          /\ stdout' = IF Returned(outq[k][2])
                       THEN Append(stdout, ResultLine(ValueOf(outq[k][2])))
                       ELSE stdout
          /\ cache' = cache \ {outq[k][1]}
          /\ outq' = SubSeq(outq, 1, k - 1) \o SubSeq(outq, k + 1, Len(outq))
    /\ UNCHANGED <<srcKind, files, nprocs, pc, raised, submitted, pool, inq, worker,
                   unit, taken, fn>>

\* a failed job is never removed from the cache
HandleResult_KeepFailed ==
    /\ pool \in {"RUN", "CLOSE"}
    /\ outq # <<>>
    /\ LET job == Head(outq)[1]
           res == Head(outq)[2]
       IN /\ stdout' = IF Returned(res) THEN Append(stdout, ResultLine(ValueOf(res)))
                       ELSE stdout
          /\ cache' = IF Returned(res) THEN cache \ {job} ELSE cache
    /\ outq' = Tail(outq)
    /\ UNCHANGED <<srcKind, files, nprocs, pc, raised, submitted, pool, inq, worker,
                   unit, taken, fn>>

\* the result handler takes the next outcome: a value goes to the callback,
\* which prints it; no error_callback was given, so an exception is only
\* stored in the AsyncResult nobody holds; the job leaves the cache
HandleResult ==
    /\ pool \in {"RUN", "CLOSE"}
    /\ outq # <<>>
    /\ LET job == Head(outq)[1]
           res == Head(outq)[2]
       IN /\ stdout' = IF Returned(res) THEN Append(stdout, ResultLine(ValueOf(res)))
                       ELSE stdout
          /\ cache' = cache \ {job}
    /\ outq' = Tail(outq)
    /\ UNCHANGED <<srcKind, files, nprocs, pc, raised, submitted, pool, inq, worker,
                   unit, taken, fn>>

Next ==
    \/ BadParameter
    \/ Discover
    \/ CreatePool
    \/ Submit
    \/ LoopEnd
    \/ Close
    \/ JoinReturns
    \/ SingleFile
    \/ \E w \in DOMAIN worker : WorkerGet(w)
    \/ \E w \in DOMAIN worker : WorkerRun(w)
    \/ HandleResult

Spec == Init /\ [][Next]_vars

\* The threads and processes of a run are scheduled fairly: cli's own thread,
\* the worker processes and the result handler thread each take a step they
\* can take.
CliStep ==
    \/ BadParameter
    \/ Discover
    \/ CreatePool
    \/ Submit
    \/ LoopEnd
    \/ Close
    \/ JoinReturns
    \/ SingleFile

WorkerStep == \E w \in DOMAIN worker : WorkerGet(w) \/ WorkerRun(w)

SpecFair ==
    /\ Init
    /\ [][Next]_vars
    /\ WF_vars(CliStep)
    /\ WF_vars(WorkerStep)
    /\ WF_vars(HandleResult)

(* ------------------------------------------------------------------ *)
(* The functions called directly, on any file and any block size       *)
(* ------------------------------------------------------------------ *)
FnInit ==
    /\ fn \in [file : FnFiles, block : BlockSizes, sum : {<<>>}, date : {<<>>},
               line : {<<>>}, calls : {<<>>}]
    /\ srcKind = "missing"
    /\ files = <<>>
    /\ nprocs = 1
    /\ pc = "fn"
    /\ raised = "none"
    /\ submitted = 0
    /\ pool = "none"
    /\ inq = <<>>
    /\ worker = <<>>
    /\ outq = <<>>
    /\ cache = {}
    /\ stdout = <<>>
    /\ unit = <<>>
    /\ taken = <<>>

\* _calc_checksum(image_path, block_size)
CallCalcChecksum ==
    /\ fn.sum = <<>>
    /\ fn' = [fn EXCEPT !.sum = <<CalcChecksum(fn.file, fn.block)>>]
    /\ UNCHANGED batchVars

\* _extract_date(image_path)
CallExtractDate ==
    /\ fn.date = <<>>
    /\ fn' = [fn EXCEPT !.date = <<ExtractDate(fn.file)>>]
    /\ UNCHANGED batchVars

\* process_file(file_path)
CallProcessFile ==
    /\ fn.line = <<>>
    /\ fn' = [fn EXCEPT !.line = <<ProcessFileRun(fn.file).outcome>>,
                         !.calls = ProcessFileRun(fn.file).calls]
    /\ UNCHANGED batchVars

FnNext ==
    \/ CallCalcChecksum
    \/ CallExtractDate
    \/ CallProcessFile

SpecFn == FnInit /\ [][FnNext]_vars

(* ------------------------------------------------------------------ *)
(* Vocabulary of the properties                                        *)
(* ------------------------------------------------------------------ *)
Jobs == 1..Len(files)
BatchDone == srcKind = "dir" /\ pc = "done"

\* the positions of stdout that hold the result line of path j
LinesOf(j) ==
    {k \in 1..Len(stdout) : stdout[k].kind = "RESULT" /\ stdout[k].val[1].name = j}
ResultLines == {k \in 1..Len(stdout) : stdout[k].kind = "RESULT"}

\* the string denotes a date and a time of day
WellFormed(tag) ==
    /\ tag.kind = "str"
    /\ tag.sep
    /\ tag.y \in 1..9999
    /\ tag.mo \in 1..12
    /\ tag.d \in 1..DaysInMonth(tag.y, tag.mo)
    /\ tag.h \in 0..23
    /\ tag.mi \in 0..59
    /\ tag.s \in 0..59
TagDate(tag) == DateTime(tag.y, tag.mo, tag.d, tag.h, tag.mi, tag.s)

\* the codec can open the file (its header is intact)
Openable(f) == f.kind \in {"image", "truncated"}
\* a valid file: it decodes and its date tag is absent or well-formed
Valid(f) == Decodable(f) /\ (f.tag.kind = "absent" \/ WellFormed(f.tag))
Corrupt(f) == ~Decodable(f)
OneCorruptRestValid ==
    /\ Cardinality({j \in Jobs : Corrupt(files[j])}) = 1
    /\ \A j \in Jobs : Corrupt(files[j]) \/ Valid(files[j])

\* the bytes _calc_checksum hashes for a decodable file
Encoded(f) == ValueOf(ImageSave(ValueOf(ImageOpen(f))))

(* ------------------------------------------------------------------ *)
(* Properties                                                          *)
(* ------------------------------------------------------------------ *)
\* C1: once the batch run is over (every file submitted, close, join), the
\* output holds exactly N results, one for each input path, none twice and
\* none missing (stated for listings of valid and of undecodable files).
C1_ExactlyOneResultPerPath ==
    (BatchDone /\ \A j \in Jobs : Valid(files[j]) \/ Corrupt(files[j])) =>
        /\ Cardinality(ResultLines) = Len(files)
        /\ \A j \in Jobs : Cardinality(LinesOf(j)) = 1

\* C2: a unit whose fingerprint call raised a decode error ends reported:
\* when the run is over, the output holds one line (a result or a failure
\* notice) about each such Failed unit's file.
C2_FailedIsReported ==
    BatchDone =>
        \A j \in Jobs :
            (unit[j] = "Failed" /\ ~Returned(CalcChecksum(files[j], DefaultBlockSize)))
                => Cardinality(LinesOf(j)) = 1

\* C3: in a batch with exactly one corrupt file among valid ones, cli ends
\* without an exception, and when it ends every valid file's unit has run to
\* completion and its result line is in the output.
C3_FailureIsolation ==
    (srcKind = "dir" /\ pc \in {"done", "raised"} /\ OneCorruptRestValid) =>
        /\ pc = "done"
        /\ raised = "none"
        /\ \A j \in Jobs : Valid(files[j]) =>
              /\ unit[j] = "Completed"
              /\ \E k \in LinesOf(j) : stdout[k].val[1] = ValueOf(ProcessFile(files[j]))

C3_Witness ==
    /\ BatchDone
    /\ Len(files) >= 2
    /\ OneCorruptRestValid
    /\ Cardinality(ResultLines) = Len(files) - 1

\* C4: when pool.join() has returned every submitted unit is Completed or
\* Failed, no task or result is left in a queue or at a worker, every
\* Completed unit's result has been emitted, and nothing is emitted afterwards.
C4_JoinIsBarrier ==
    /\ [](BatchDone =>
            /\ \A j \in Jobs : unit[j] \in {"Completed", "Failed"}
            /\ inq = <<>>
            /\ outq = <<>>
            /\ \A w \in DOMAIN worker : worker[w] = 0
            /\ \A j \in Jobs : unit[j] = "Completed" => LinesOf(j) # {})
    /\ [][BatchDone => stdout' = stdout]_vars

C4_Witness ==
    /\ BatchDone
    /\ Len(files) >= 2
    /\ \E j \in Jobs : unit[j] = "Completed"
    /\ \E j \in Jobs : unit[j] = "Failed"

\* C5: no job is taken from the task queue more than once, no two workers
\* hold the same job, and a job a worker holds is no longer in the queue.
C5_ClaimedByOneWorker ==
    /\ \A j \in Jobs : taken[j] <= 1
    /\ \A v, w \in DOMAIN worker : (v # w /\ worker[v] # 0) => worker[v] # worker[w]
    /\ \A w \in DOMAIN worker : \A k \in 1..Len(inq) : worker[w] = 0 \/ inq[k] # worker[w]

C5_Witness ==
    /\ Len(worker) >= 2
    /\ worker[1] # 0
    /\ worker[2] # 0
    /\ inq # <<>>

\* C6: _extract_date never raises: on every file the codec opens, whose tag
\* 306 is absent or holds a string, it returns a timestamp, and the sentinel
\* when the tag is absent or its string does not parse.
C6_ExtractDateNeverFails ==
    (fn.date # <<>> /\ Openable(fn.file) /\ fn.file.tag.kind \in {"absent", "str"}) =>
        /\ Returned(fn.date[1])
        /\ (fn.file.tag.kind = "absent" \/ ~WellFormed(fn.file.tag))
              => fn.date[1] = Ret(ERROR_DATE)

C8_AnyBlockSize ==
    (fn.sum # <<>> /\ Decodable(fn.file)) =>
        fn.sum[1] = Ret(Sha1(Encoded(fn.file)))

\* C8 (amended): for every block_size other than 0 the digest of a decodable
\* file is the digest of the whole encoded buffer, whatever the block size;
\* with block_size 0 the first read returns nothing and the digest is that of
\* the empty buffer.
C8_ChunkSizeInvariance ==
    (fn.sum # <<>> /\ Decodable(fn.file)) =>
        /\ fn.block # 0 =>
              /\ fn.sum[1] = Ret(Sha1(Encoded(fn.file)))
              /\ \A b \in BlockSizes \ {0} : CalcChecksum(fn.file, b) = fn.sum[1]
        /\ fn.block = 0 => fn.sum[1] = Ret(Sha1(<<>>))

C8_Witness ==
    /\ fn.sum # <<>>
    /\ Decodable(fn.file)
    /\ fn.block >= 1
    /\ Len(Encoded(fn.file)) > 2 * fn.block
    /\ Returned(fn.sum[1])

\* C9: two result lines of files with the same pixel payload and the same
\* format carry the same fingerprint, whatever their metadata, names and
\* file-system timestamps.
C9_FingerprintOfPixelsOnly ==
    \A a, b \in ResultLines :
        LET fa == files[stdout[a].val[1].name]
            fb == files[stdout[b].val[1].name]
        IN (fa.pixels = fb.pixels /\ fa.format = fb.format)
              => stdout[a].val[1].hash = stdout[b].val[1].hash

C9_Witness ==
    \E a, b \in ResultLines :
        LET fa == files[stdout[a].val[1].name]
            fb == files[stdout[b].val[1].name]
        IN /\ fa.pixels = fb.pixels
           /\ fa.format = fb.format
           /\ fa.tag # fb.tag
           /\ fa.mtime # fb.mtime
           /\ fa.name # fb.name

\* C10: on a file that does not decode, _calc_checksum raises the codec's
\* error and returns no digest, and process_file raises that same error.
C10_DecodeErrorPropagates ==
    Corrupt(fn.file) =>
        /\ fn.sum # <<>> =>
              /\ fn.sum[1].exc \in {"UnidentifiedImageError", "OSError"}
              /\ fn.sum[1].val = <<>>
        /\ fn.line # <<>> =>
              /\ fn.line[1].exc \in {"UnidentifiedImageError", "OSError"}
              /\ fn.line[1].val = <<>>
        /\ (fn.sum # <<>> /\ fn.line # <<>>) => fn.line[1] = fn.sum[1]

C10_Witness ==
    /\ fn.file.kind = "zero"
    /\ fn.sum # <<>>
    /\ fn.line # <<>>
    /\ ~Returned(fn.line[1])

\* C11: in every state of a run at most nprocs units are Running, nprocs
\* being the number of processes Pool() starts (the host's CPU count),
\* however many files were submitted.
C11_PoolIsBounded ==
    /\ Cardinality({j \in Jobs : unit[j] = "Running"}) <= nprocs
    /\ Len(worker) <= nprocs

C11_Witness ==
    /\ srcKind = "dir"
    /\ Len(files) > nprocs
    /\ Cardinality({j \in Jobs : unit[j] = "Running"}) = nprocs
    /\ inq # <<>>
    /\ submitted = Len(files)

\* the moves of a unit of work the state machine allows
UnitMove(from, to) ==
    \/ to = from
    \/ from = "Unsubmitted" /\ to = "Queued"
    \/ from = "Queued" /\ to = "Running"
    \/ from = "Running" /\ to \in {"Completed", "Failed"}

\* C12: in a batch run every unit of work moves Queued -> Running ->
\* Completed or Failed and in no other way: it never goes back, Completed
\* and Failed are final, and it is taken up to run at most once.
C12_UnitStateMachine ==
    /\ [][srcKind = "dir" => \A j \in Jobs : UnitMove(unit[j], unit'[j])]_vars
    /\ [](srcKind = "dir" => \A j \in Jobs : unit[j] = "Unsubmitted" \/ taken[j] <= 1)
    /\ [](srcKind = "dir" =>
            \A j \in Jobs : (unit[j] \in {"Unsubmitted", "Queued"}) <=> (taken[j] = 0))

C12_Witness ==
    /\ srcKind = "dir"
    /\ \E j \in Jobs : unit[j] = "Failed"
    /\ \E j \in Jobs : unit[j] = "Completed"
    /\ \E j \in Jobs : unit[j] = "Running"

CountLines == {k \in 1..Len(stdout) : stdout[k].kind = "COUNT"}

\* C13: a directory run echoes the count of the files found exactly once, as
\* the first line of the output, before the pool exists, before any unit is
\* submitted and before any result line.
C13_CountOnceAndFirst ==
    srcKind = "dir" =>
        /\ Cardinality(CountLines) <= 1
        /\ (pc # "start") =>
              /\ CountLines = {1}
              /\ stdout[1].val[1] = Len(files)
        /\ (pool # "none" \/ submitted > 0 \/ ResultLines # {}
            \/ \E j \in Jobs : unit[j] # "Unsubmitted") => CountLines = {1}

C13_Witness ==
    /\ BatchDone
    /\ Len(files) >= 2
    /\ CountLines = {1}
    /\ Cardinality(ResultLines) >= 2

\* C14: when src does not exist, or is neither a directory nor a regular
\* file, cli raises BadParameter and nothing else happens: no pool is made, no
\* unit of work is started, no count and no result line is written.
C14_BadParameterFailsFast ==
    srcKind \in {"missing", "other"} =>
        /\ pc \in {"start", "raised"}
        /\ pc = "raised" => raised = "BadParameter"
        /\ pool = "none"
        /\ worker = <<>>
        /\ inq = <<>>
        /\ submitted = 0
        /\ stdout = <<>>

C14_Witness ==
    /\ srcKind = "missing"
    /\ pc = "raised"
    /\ raised = "BadParameter"

\* C15: results are emitted in arrival order: an outcome waiting on the
\* result queue can be handled whatever the state of the other units, and a
\* line emitted during the batch is the result at the head of that queue; so
\* a later file's line can be out while an earlier file still runs.
C15_EmittedInArrivalOrder ==
    /\ []((pool \in {"RUN", "CLOSE"} /\ outq # <<>>) => ENABLED HandleResult)
    /\ [][(pool \in {"RUN", "CLOSE"} /\ Len(stdout') > Len(stdout)) =>
            /\ outq # <<>>
            /\ Returned(Head(outq)[2])
            /\ stdout'[Len(stdout')].val[1] = ValueOf(Head(outq)[2])
            /\ outq' = Tail(outq)]_vars

C15_Witness ==
    \E a, b \in Jobs :
        /\ a < b
        /\ unit[a] = "Running"
        /\ LinesOf(b) # {}

\* C16: process_file calls _calc_checksum first and _extract_date second; if
\* _calc_checksum raises, _extract_date is not called and that exception
\* leaves process_file; if _extract_date raises, its exception does; a line
\* is returned only if both returned.
C16_ChecksumThenDate ==
    fn.line # <<>> =>
        LET cs == CalcChecksum(fn.file, DefaultBlockSize)
            dt == ExtractDate(fn.file)
        IN /\ fn.calls[1] = "_calc_checksum"
           /\ ~Returned(cs) => (fn.calls = <<"_calc_checksum">> /\ fn.line[1] = cs)
           /\ Returned(cs) => fn.calls = <<"_calc_checksum", "_extract_date">>
           /\ (Returned(cs) /\ ~Returned(dt)) => fn.line[1] = dt
           /\ Returned(fn.line[1]) <=> (Returned(cs) /\ Returned(dt))
           /\ ~Returned(fn.line[1]) => fn.line[1].val = <<>>

C16_Witness ==
    /\ fn.line # <<>>
    /\ Decodable(fn.file)
    /\ fn.calls = <<"_calc_checksum", "_extract_date">>
    /\ fn.line[1].exc = "ValueError"

\* C17: under fair scheduling cli eventually ends, and a directory run ends
\* whatever the file list (empty, or with failing files) with every unit
\* Completed or Failed and pool.join() returned.
C17_BatchTerminates ==
    <>(/\ pc \in {"done", "raised"}
       /\ srcKind = "dir" =>
             /\ pc = "done"
             /\ pool = "JOINED"
             /\ \A j \in Jobs : unit[j] \in {"Completed", "Failed"})

C17_Witness ==
    /\ BatchDone
    /\ pool = "JOINED"
    /\ Len(files) >= 2
    /\ \A j \in Jobs : unit[j] = "Failed"

\* C18: while the pool runs, a line is written only by the result handler in
\* the parent: the step that writes it is no worker's step, appends exactly
\* one whole result line and retires that line's job; no job gets two lines.
C18_EmissionInParentOnly ==
    /\ [][(pool \in {"RUN", "CLOSE"} /\ stdout' # stdout) =>
            /\ worker' = worker
            /\ unit' = unit
            /\ inq' = inq
            /\ Len(stdout') = Len(stdout) + 1
            /\ SubSeq(stdout', 1, Len(stdout)) = stdout
            /\ stdout'[Len(stdout')].kind = "RESULT"
            /\ stdout'[Len(stdout')].val[1].name \in cache
            /\ cache' = cache \ {stdout'[Len(stdout')].val[1].name}]_vars
    /\ [](\A j \in Jobs : Cardinality(LinesOf(j)) <= 1)

C18_Witness ==
    /\ Cardinality(ResultLines) >= 2
    /\ \E w \in DOMAIN worker : worker[w] # 0

\* C19: when src is a regular file, cli calls process_file itself: no pool, no
\* task, no count line; on success the output is exactly that one result
\* line, on failure nothing is written and the exception leaves cli.
C19_SingleFileSynchronous ==
    srcKind = "file" =>
        /\ pc \in {"start", "done", "raised"}
        /\ pool = "none"
        /\ worker = <<>>
        /\ inq = <<>>
        /\ outq = <<>>
        /\ submitted = 0
        /\ CountLines = {}
        /\ pc = "start" => stdout = <<>>
        /\ pc = "done" =>
              /\ Returned(ProcessFile(files[1]))
              /\ raised = "none"
              /\ Len(stdout) = 1
              /\ stdout[1].kind = "RESULT"
              /\ stdout[1].val[1] = ValueOf(ProcessFile(files[1]))
        /\ pc = "raised" =>
              /\ ~Returned(ProcessFile(files[1]))
              /\ raised = ProcessFile(files[1]).exc
              /\ stdout = <<>>

C19_Witness ==
    /\ srcKind = "file"
    /\ pc = "raised"
    /\ raised = "UnidentifiedImageError"

====
